---- MODULE Spec2Model ----
(***************************************************************************)
(* Model of main.py: the one-shot coffee-shop sales dashboard export.      *)
(* The script loads a spreadsheet (or a synthetic fallback table), renders *)
(* the index route once through a test client, and writes the page to a    *)
(* static HTML file.                                                       *)
(*                                                                         *)
(* A DataFrame is a sequence of rows plus the set of its column labels; a  *)
(* row is a function from the column labels to cell values.  Dates are day *)
(* offsets from 2025-01-01.  Floating-point values are exact fractions     *)
(* [num, den]; NaN is the fraction 0/0.  Cells of an enumerated sheet are  *)
(* never blank: amounts are non-negative integers, payment types and       *)
(* product names are strings, dates are parseable.                         *)
(***************************************************************************)
EXTENDS Integers, Sequences, FiniteSets, TLC

VARIABLES pc, df, columns, read_result, error, response, output_file, write_count

vars == <<pc, df, columns, read_result, error, response, output_file, write_count>>

\* ---- bounds of the enumerated spreadsheet contents ----
MaxLen == 2
MaxMoney == 1
MaxDay == 1

\* ---- column labels and cell values ----
RequiredColumns == {"money", "cash_type", "coffee_name", "date"}
PaymentTypes == <<"card", "cash">>
CoffeeNames == <<"Espresso", "Latte", "Capuccino">>
weekday_order == <<"Monday", "Tuesday", "Wednesday", "Thursday", "Friday", "Saturday", "Sunday">>
FallbackRows == 100

Range(s) == {s[i] : i \in DOMAIN s}

\* ---- floating point values as exact fractions ----
NaN == [num |-> 0, den |-> 0]

IsNaN(v) == v.den = 0

Abs(n) == IF n < 0 THEN -n ELSE n

RECURSIVE GCD(_, _)
GCD(a, b) == IF b = 0 THEN a ELSE GCD(b, a % b)

Frac(n, d) == LET g == GCD(Abs(n), d) IN [num |-> n \div g, den |-> d \div g]

FromInt(n) == [num |-> n, den |-> 1]

\* round(value, 2): nearest hundredth, ties to even; NaN stays NaN.  An exact
\* tie needs a denominator divisible by 8, i.e. a mean over at least 8 rows.
Round2(v) ==
  IF IsNaN(v) THEN NaN
  ELSE LET scaled == v.num * 100
           q == scaled \div v.den
           r == scaled % v.den
           cents == IF 2 * r < v.den THEN q
                    ELSE IF 2 * r > v.den THEN q + 1
                    ELSE IF q % 2 = 0 THEN q ELSE q + 1
       IN Frac(cents, 100)

\* int(value): truncation toward zero (defined for non-NaN only)
Trunc(v) == IF v.num >= 0 THEN v.num \div v.den ELSE -((-v.num) \div v.den)

\* ---- outcomes of a call: a value or a raised exception ----
Ok(v) == [raised |-> "none", value |-> v]

Raise(e) == [raised |-> e]

\* list * n
Repeat(s, n) == [i \in 1..(Len(s) * n) |-> s[((i - 1) % Len(s)) + 1]]

\* ---- the fallback table built in the except branch ----
FallbackDataBadMoney ==
  LET money == [x \in 1..FallbackRows |-> (x - 1) * 10 + 5]
      cash_type == Repeat(PaymentTypes, 50)
      coffee_name == Repeat(CoffeeNames, 33) \o <<"Espresso">>
  IN [x \in 1..FallbackRows |->
        [money |-> money[x], cash_type |-> cash_type[x],
         coffee_name |-> coffee_name[x], date |-> x - 1]]

FallbackData ==
  LET money == [x \in 1..FallbackRows |-> (x - 1) * 10 + 50]
      cash_type == Repeat(PaymentTypes, 50)
      coffee_name == Repeat(CoffeeNames, 33) \o <<"Espresso">>
  IN [x \in 1..FallbackRows |->
        [money |-> money[x], cash_type |-> cash_type[x],
         coffee_name |-> coffee_name[x], date |-> x - 1]]

\* ---- spreadsheets that read_excel may return ----
FullRows == [money : 0..MaxMoney, cash_type : Range(PaymentTypes),
             coffee_name : Range(CoffeeNames), date : 0..MaxDay]

Restrict(r, C) == [c \in C |-> r[c]]

RowsOver(C) == {Restrict(r, C) : r \in FullRows}

Sheets(C) == IF C = {} THEN {<<>>}
             ELSE UNION {[1..n -> RowsOver(C)] : n \in 0..MaxLen}

\* exceptions read_excel may raise
ReadErrors == {"FileNotFoundError", "PermissionError", "ValueError"}

\* an except clause that handles nothing
CaughtNothing(exc) == FALSE

\* a bare except clause
CaughtAll(exc) == TRUE

\* the except clause of the loader
Caught(exc) == exc = "FileNotFoundError"

\* ---- pandas helpers ----
\* DataFrame.empty: any axis of length 0
Empty(d, cols) == Len(d) = 0 \/ cols = {}

\* sum of column col over rows lo..hi (pairwise summation)
RECURSIVE SumRange(_, _, _, _)
SumRange(d, col, lo, hi) ==
  IF lo > hi THEN 0
  ELSE IF lo = hi THEN d[lo][col]
  ELSE LET mid == (lo + hi) \div 2
       IN SumRange(d, col, lo, mid) + SumRange(d, col, mid + 1, hi)

\* Series.sum(): 0 on an empty series
series_sum(d, col) == SumRange(d, col, 1, Len(d))

\* a mean that divides by one too many
series_mean_offby1(d, col) == IF Len(d) = 0 THEN NaN ELSE Frac(series_sum(d, col), Len(d) + 1)

\* Series.mean(): NaN on an empty series
series_mean(d, col) == IF Len(d) = 0 THEN NaN ELSE Frac(series_sum(d, col), Len(d))

\* lexicographic order of the labels that occur as group keys
KeyOrder == <<"Capuccino", "Espresso", "Latte", "card", "cash">>

\* the rows of one group
GroupRows(d, by, k) == SelectSeq(d, LAMBDA r : r[by] = k)

\* groupby(by): the observed keys, each with the sum and the count of its rows
Groups(d, by) ==
  [k \in {d[i][by] : i \in DOMAIN d} |->
     [sum |-> series_sum(GroupRows(d, by, k), "money"),
      count |-> Len(GroupRows(d, by, k))]]

\* a groupby that counts the rows instead of summing them
groupby_count(d, by) ==
  LET g == Groups(d, by)
      idx == SelectSeq(KeyOrder, LAMBDA k : k \in DOMAIN g)
  IN [i \in 1..Len(idx) |-> [key |-> idx[i], value |-> g[idx[i]].count]]

\* df.groupby(by)['money'].sum(): one entry per key, keys sorted
groupby_sum(d, by) ==
  LET g == Groups(d, by)
      idx == SelectSeq(KeyOrder, LAMBDA k : k \in DOMAIN g)
  IN [i \in 1..Len(idx) |-> [key |-> idx[i], value |-> g[idx[i]].sum]]

\* insertion of one entry into an ascending series, after equal values
RECURSIVE Insert(_, _)
Insert(s, e) ==
  IF s = <<>> THEN <<e>>
  ELSE IF e.value < Head(s).value THEN <<e>> \o s
  ELSE <<Head(s)>> \o Insert(Tail(s), e)

\* sort_values left out: the series stays in key order
sort_values_skipped(s) == s

RECURSIVE sort_values(_)
sort_values(s) ==
  IF s = <<>> THEN <<>>
  ELSE Insert(sort_values(SubSeq(s, 1, Len(s) - 1)), s[Len(s)])

\* Timestamp.day_name(): 2025-01-01 is a Wednesday
day_name(date) == weekday_order[((date + 2) % 7) + 1]

\* df_copy with the Weekday column added
with_weekday(d) == [i \in 1..Len(d) |-> [money |-> d[i].money, Weekday |-> day_name(d[i].date)]]

\* a weekday mean that fills the unobserved categories with zero
groupby_mean_fill0(d, categories) ==
  LET g == Groups(d, "Weekday")
  IN [i \in 1..Len(categories) |->
        [key |-> categories[i],
         value |-> IF categories[i] \in DOMAIN g
                   THEN Frac(g[categories[i]].sum, g[categories[i]].count)
                   ELSE FromInt(0)]]

\* groupby('Weekday', observed=False)['money'].mean(): one entry per category
groupby_mean_categorical(d, categories) ==
  LET g == Groups(d, "Weekday")
  IN [i \in 1..Len(categories) |->
        [key |-> categories[i],
         value |-> IF categories[i] \in DOMAIN g
                   THEN Frac(g[categories[i]].sum, g[categories[i]].count)
                   ELSE NaN]]

\* Series.reindex(order): labels absent from the series get NaN
reindex(s, order) ==
  [i \in 1..Len(order) |->
     [key |-> order[i],
      value |-> IF \E j \in DOMAIN s : s[j].key = order[i]
                THEN s[CHOOSE j \in DOMAIN s : s[j].key = order[i]].value
                ELSE NaN]]

\* ---- chart helpers ----
Placeholder(text) == [kind |-> "placeholder", text |-> text]

Figure(type, series) == [kind |-> "figure", type |-> type, series |-> series]

create_metric_card(value, title, is_currency) ==
  IF is_currency
  THEN Ok([title |-> title, prefix |-> "$", value |-> Round2(value)])
  ELSE IF IsNaN(value) THEN Raise("ValueError")
  ELSE Ok([title |-> title, prefix |-> "", value |-> FromInt(Trunc(value))])

\* a donut chart without the empty-table guard
create_donut_chart_unguarded(d, cols) ==
  IF "cash_type" \notin cols \/ "money" \notin cols THEN Raise("KeyError")
  ELSE Ok(Figure("pie", groupby_sum(d, "cash_type")))

create_donut_chart(d, cols) ==
  IF Empty(d, cols) THEN Ok(Placeholder("Sem dados para grafico de rosca."))
  ELSE IF "cash_type" \notin cols \/ "money" \notin cols THEN Raise("KeyError")
  ELSE Ok(Figure("pie", groupby_sum(d, "cash_type")))

create_bar_chart(d, cols) ==
  IF Empty(d, cols) THEN Ok(Placeholder("Sem dados para grafico de barras."))
  ELSE IF "coffee_name" \notin cols \/ "money" \notin cols THEN Raise("KeyError")
  ELSE Ok(Figure("bar", sort_values(groupby_sum(d, "coffee_name"))))

\* a line chart that swallows a missing column
create_line_chart_lenient(d, cols) ==
  IF Empty(d, cols) \/ "date" \notin cols \/ "money" \notin cols
  THEN Ok(Placeholder("Sem dados para grafico de linha."))
  ELSE Ok(Figure("scatter",
                 reindex(groupby_mean_categorical(with_weekday(d), weekday_order),
                         weekday_order)))

create_line_chart(d, cols) ==
  IF Empty(d, cols) THEN Ok(Placeholder("Sem dados para grafico de linha."))
  ELSE IF "date" \notin cols \/ "money" \notin cols THEN Raise("KeyError")
  ELSE Ok(Figure("scatter",
                 reindex(groupby_mean_categorical(with_weekday(d), weekday_order),
                         weekday_order)))

\* ---- the index route ----
index(d, cols) ==
  IF "money" \notin cols THEN Raise("KeyError")
  ELSE
    LET total_sales == series_sum(d, "money")
        num_transactions == Len(d)
        avg_transaction_value == series_mean(d, "money")
        card1 == create_metric_card(FromInt(total_sales), "Total Sales", TRUE)
        card2 == create_metric_card(FromInt(num_transactions), "Number Of Transaction", FALSE)
        card3 == create_metric_card(avg_transaction_value, "Avg Transaction Value", TRUE)
        chart_donut == create_donut_chart(d, cols)
        chart_bar == create_bar_chart(d, cols)
        chart_line == create_line_chart(d, cols)
    IN IF card1.raised # "none" THEN Raise(card1.raised)
       ELSE IF card2.raised # "none" THEN Raise(card2.raised)
       ELSE IF card3.raised # "none" THEN Raise(card3.raised)
       ELSE IF chart_donut.raised # "none" THEN Raise(chart_donut.raised)
       ELSE IF chart_bar.raised # "none" THEN Raise(chart_bar.raised)
       ELSE IF chart_line.raised # "none" THEN Raise(chart_line.raised)
       ELSE Ok([total_sales |-> total_sales,
                num_transactions |-> num_transactions,
                avg_transaction_value |-> avg_transaction_value,
                card1 |-> card1.value, card2 |-> card2.value, card3 |-> card3.value,
                chart_donut |-> chart_donut.value,
                chart_bar |-> chart_bar.value,
                chart_line |-> chart_line.value])

\* ---- the script, top to bottom ----
None == [kind |-> "none"]

Init ==
  /\ pc = "load"
  /\ df = <<>>
  /\ columns = {}
  /\ read_result = "pending"
  /\ error = "none"
  /\ response = None
  /\ output_file = None
  /\ write_count = 0

\* read_excel returns a table
LoadFound ==
  /\ pc = "load"
  /\ \E C \in SUBSET RequiredColumns : \E d \in Sheets(C) :
       /\ df' = d
       /\ columns' = C
  /\ read_result' = "ok"
  /\ pc' = "loaded"
  /\ UNCHANGED <<error, response, output_file, write_count>>

\* read_excel raises and the except clause handles it: fallback table
LoadFallback ==
  /\ pc = "load"
  /\ \E exc \in ReadErrors :
       /\ Caught(exc)
       /\ read_result' = exc
  /\ df' = FallbackData
  /\ columns' = RequiredColumns
  /\ pc' = "loaded"
  /\ UNCHANGED <<error, response, output_file, write_count>>

\* read_excel raises and the except clause does not match: the script dies
LoadRaises ==
  /\ pc = "load"
  /\ \E exc \in ReadErrors :
       /\ ~Caught(exc)
       /\ read_result' = exc
       /\ error' = exc
  /\ pc' = "error"
  /\ UNCHANGED <<df, columns, response, output_file, write_count>>

\* client.get('/') runs index() and returns the rendered page
Index ==
  /\ pc = "loaded"
  /\ index(df, columns).raised = "none"
  /\ response' = index(df, columns).value
  /\ pc' = "indexed"
  /\ UNCHANGED <<df, columns, read_result, error, output_file, write_count>>

\* index() raises; the test client re-raises and the script dies
IndexRaises ==
  /\ pc = "loaded"
  /\ index(df, columns).raised # "none"
  /\ error' = index(df, columns).raised
  /\ pc' = "error"
  /\ UNCHANGED <<df, columns, read_result, response, output_file, write_count>>

\* open(output_file, "w") and write
Export ==
  /\ pc = "indexed"
  /\ output_file' = response
  /\ write_count' = write_count + 1
  /\ pc' = "written"
  /\ UNCHANGED <<df, columns, read_result, error, response>>

Next == LoadFound \/ LoadFallback \/ LoadRaises \/ Index \/ IndexRaises \/ Export

Spec == Init /\ [][Next]_vars

TypeOK ==
  /\ pc \in {"load", "loaded", "indexed", "written", "error"}
  /\ read_result \in {"pending", "ok"} \cup ReadErrors
  /\ write_count \in 0..1

\* ---- properties ----
Loaded == pc \in {"loaded", "indexed", "written"}

Done == pc \in {"indexed", "written"}

\* sum of money over the rows with index in S, one row after the other
RECURSIVE MoneyOfRows(_)
MoneyOfRows(S) ==
  IF S = {} THEN 0
  ELSE LET j == CHOOSE x \in S : TRUE IN df[j].money + MoneyOfRows(S \ {j})

\* the same over the blocks of ten consecutive rows up to block b
RECURSIVE MoneyOfBlocks(_, _)
MoneyOfBlocks(S, b) ==
  IF b < 0 THEN 0
  ELSE MoneyOfRows({j \in S : (j - 1) \div 10 = b}) + MoneyOfBlocks(S, b - 1)

MoneyOf(S) == MoneyOfBlocks(S, Len(df) \div 10)

\* sum of the values of a series of at most three entries
ValuesOf(s) == (IF Len(s) >= 1 THEN s[1].value ELSE 0)
               + (IF Len(s) >= 2 THEN s[2].value ELSE 0)
               + (IF Len(s) >= 3 THEN s[3].value ELSE 0)

\* C1: when read_excel raises FileNotFoundError the loader does not raise: the
\* table is the 100-row fallback with all four columns, and the run goes on
\* to the index route, which succeeds on it.
C1_AbsentFileFallsBack ==
  read_result = "FileNotFoundError" =>
    /\ Loaded
    /\ error = "none"
    /\ Len(df) = 100
    /\ columns = RequiredColumns
    /\ pc = "loaded" => index(df, columns).raised = "none"

C1_Witness == read_result = "FileNotFoundError" /\ pc = "indexed" /\ Len(df) = 100

\* C2 (as claimed): for every load outcome the loader ends with a table and
\* not in an error state, and every failed read yields the fallback table.
C2_Original ==
  read_result # "pending" =>
    /\ pc # "error" \/ error # read_result
    /\ read_result \in ReadErrors => df = FallbackData

\* C2 (amended): only FileNotFoundError is handled.  An absent file yields
\* the fallback table and no error; a file that exists but cannot be read
\* (PermissionError, ValueError) makes the loader raise: the run ends in the
\* error state with that exception, no table, no page and no output file.
C2_OnlyAbsentFallsBack ==
  /\ read_result = "FileNotFoundError" => (df = FallbackData /\ error = "none" /\ Loaded)
  /\ read_result = "ok" => (Loaded \/ (pc = "error" /\ error \notin {"none", read_result}))
  /\ read_result \in {"PermissionError", "ValueError"} =>
       /\ pc = "error"
       /\ error = read_result
       /\ df = <<>>
       /\ response = None
       /\ output_file = None
       /\ write_count = 0

C2_Witness == read_result = "PermissionError" /\ pc = "error" /\ error = "PermissionError"

\* C3: with zero records the overall metrics are all 0: total_sales 0,
\* transaction_count 0, and the average reported as 0 on its card.
C3_EmptyMetricsZero ==
  (Done /\ Len(df) = 0) =>
    /\ response.total_sales = 0
    /\ response.num_transactions = 0
    /\ response.card1.value = FromInt(0)
    /\ response.card2.value = FromInt(0)
    /\ response.card3.value = FromInt(0)

\* C4: with zero records each of the three chart functions returns its
\* placeholder and raises nothing, whichever columns the table has (no
\* column is looked up, so nothing is grouped or averaged).
C4_EmptyChartsPlaceholder ==
  (Loaded /\ Len(df) = 0) =>
    /\ create_donut_chart(df, columns) = Ok(Placeholder("Sem dados para grafico de rosca."))
    /\ create_bar_chart(df, columns) = Ok(Placeholder("Sem dados para grafico de barras."))
    /\ create_line_chart(df, columns) = Ok(Placeholder("Sem dados para grafico de linha."))
    /\ Done => /\ response.chart_donut.kind = "placeholder"
               /\ response.chart_bar.kind = "placeholder"
               /\ response.chart_line.kind = "placeholder"

C4_Witness ==
  /\ Done
  /\ Len(df) = 0
  /\ columns = {"money"}
  /\ response.chart_donut.kind = "placeholder"
  /\ response.chart_line.kind = "placeholder"

\* C5: for a non-empty table weekly_trend has exactly the 7 keys Monday..Sunday
\* in that order; a weekday with records holds the mean of their amounts, a
\* weekday without records holds NaN, not zero.
C5_WeeklyTrend ==
  (Done /\ Len(df) > 0) =>
    LET s == response.chart_line.series IN
    /\ response.chart_line.kind = "figure"
    /\ Len(s) = 7
    /\ \A i \in 1..7 :
         LET rows == {j \in DOMAIN df : ((df[j].date + 2) % 7) + 1 = i} IN
         /\ s[i].key = <<"Monday", "Tuesday", "Wednesday", "Thursday",
                         "Friday", "Saturday", "Sunday">>[i]
         /\ rows = {} => (s[i].value = NaN /\ s[i].value # FromInt(0))
         /\ rows # {} => /\ s[i].value.den > 0
                         /\ s[i].value.num * Cardinality(rows) = MoneyOf(rows) * s[i].value.den

C5_Witness ==
  /\ Done
  /\ read_result = "ok"
  /\ Len(df) = 2
  /\ response.chart_line.series[1].value = NaN
  /\ response.chart_line.series[3].value = Frac(1, 2)
  /\ response.chart_line.series[4].value = NaN

\* C6: for a non-empty table revenue_by_product has one entry per distinct
\* product name, holding the sum of that product's amounts, and the entries are
\* in ascending order of that sum.
C6_RevenueByProduct ==
  (Done /\ Len(df) > 0) =>
    LET s == response.chart_bar.series
        names == {df[j].coffee_name : j \in DOMAIN df}
    IN
    /\ response.chart_bar.kind = "figure"
    /\ Len(s) = Cardinality(names)
    /\ {s[i].key : i \in DOMAIN s} = names
    /\ \A i \in DOMAIN s : s[i].value = MoneyOf({j \in DOMAIN df : df[j].coffee_name = s[i].key})
    /\ \A i \in 1..(Len(s) - 1) : s[i].value <= s[i + 1].value

C6_Witness ==
  /\ Done
  /\ read_result = "ok"
  /\ Len(df) = 2
  /\ Len(response.chart_bar.series) = 2
  /\ response.chart_bar.series[1].key = "Latte"
  /\ response.chart_bar.series[2].key = "Capuccino"
  /\ response.chart_bar.series[1].value < response.chart_bar.series[2].value

\* C7: for a non-empty table the per-payment-type sums of the donut chart add
\* up to total_sales.
C7_PaymentSumsAddUp ==
  (Done /\ Len(df) > 0) =>
    /\ response.chart_donut.kind = "figure"
    /\ Len(response.chart_donut.series) <= 3
    /\ ValuesOf(response.chart_donut.series) = response.total_sales

C7_Witness ==
  /\ Done
  /\ read_result = "ok"
  /\ Len(df) = 2
  /\ Len(response.chart_donut.series) = 2
  /\ response.chart_donut.series[1].value = 0
  /\ response.total_sales = 1

\* C8: for a table of N >= 1 records transaction_count is N, total_sales is
\* the sum of the amounts, and avg_transaction_value is total_sales divided by
\* transaction_count.
C8_OverallMetrics ==
  (Done /\ Len(df) >= 1) =>
    /\ response.num_transactions = Len(df)
    /\ response.total_sales = MoneyOf(DOMAIN df)
    /\ response.avg_transaction_value.den > 0
    /\ response.avg_transaction_value.num * response.num_transactions
         = response.total_sales * response.avg_transaction_value.den

C8_Witness ==
  /\ Done
  /\ read_result = "ok"
  /\ Len(df) = 2
  /\ response.total_sales = 1
  /\ response.avg_transaction_value = Frac(1, 2)

\* C9: on the fallback branch record i (i in 0..99) has amount 10*i + 50,
\* payment type card for even i and cash for odd i, product cycling through
\* Espresso, Latte, Capuccino, and the metrics are total_sales = 54500,
\* transaction_count = 100, avg_transaction_value = 545.
C9_FallbackMetrics ==
  read_result = "FileNotFoundError" =>
    /\ Len(df) = 100
    /\ \A i \in 0..99 :
         /\ df[i + 1].money = 10 * i + 50
         /\ df[i + 1].cash_type = (IF i % 2 = 0 THEN "card" ELSE "cash")
         /\ df[i + 1].coffee_name = (IF i % 3 = 0 THEN "Espresso"
                                     ELSE IF i % 3 = 1 THEN "Latte" ELSE "Capuccino")
         /\ df[i + 1].date = i
    /\ Done => /\ response.total_sales = 54500
               /\ response.num_transactions = 100
               /\ response.avg_transaction_value = FromInt(545)

C9_Witness ==
  /\ read_result = "FileNotFoundError"
  /\ pc = "written"
  /\ output_file.total_sales = 54500
  /\ output_file.card3.value = FromInt(545)

\* the output file is written at most once, and only from a complete page
WriteOnlyAfterIndex ==
  /\ write_count <= 1
  /\ write_count = 1 <=> pc = "written"
  /\ pc = "written" => (output_file = response /\ response # None /\ error = "none")
  /\ pc # "written" => output_file = None
  /\ pc = "error" => response = None

\* C10 (as claimed): a loaded table lacking any required column ends the run
\* in a fatal error, without fallback and without writing the output file.
C10_Original ==
  /\ (read_result = "ok" /\ columns # RequiredColumns /\ pc \notin {"load", "loaded"}) =>
       /\ pc = "error"
       /\ error = "KeyError"
       /\ df # FallbackData
       /\ write_count = 0
  /\ WriteOnlyAfterIndex

\* C10 (amended): a loaded table that lacks the money column, or that has at
\* least one record and lacks any required column, ends the run in a fatal
\* KeyError, without fallback and without writing the output file; the file
\* is written at most once and only from a complete page.  (A zero-record
\* table that has money but lacks another column raises nothing.)
C10_MissingColumnFatal ==
  /\ (/\ read_result = "ok"
      /\ "money" \notin columns \/ (Len(df) > 0 /\ columns # RequiredColumns)
      /\ pc \notin {"load", "loaded"}) =>
       /\ pc = "error"
       /\ error = "KeyError"
       /\ df # FallbackData
       /\ response = None
       /\ output_file = None
       /\ write_count = 0
  /\ WriteOnlyAfterIndex

C10_Witness ==
  /\ read_result = "ok"
  /\ Len(df) > 0
  /\ columns = RequiredColumns \ {"date"}
  /\ pc = "error"
  /\ error = "KeyError"
  /\ write_count = 0
====
